---- MODULE Spec2Model ----
(***************************************************************************)
(* A model of app.py, the manufacturing KPI dashboard: the root locator,   *)
(* the cached loader, the sidebar filters, the aggregations and the Pareto *)
(* computation.  One run of main() is one interaction.                     *)
(***************************************************************************)
EXTENDS Integers, Sequences, FiniteSets, TLC

VARIABLES
    fs,        \* the directories from the filesystem root (0) down to cwd
    cwd,       \* depth of the current working directory
    cache,     \* st.cache_data's entries for load_data, keyed by root
    df,        \* the batch table the interaction works on
    dt_long,   \* the downtime table the interaction works on
    view,      \* what the last run of main() computed and rendered
    pc,        \* find_project_root: position in the function
    root,      \* find_project_root: the local variable root
    changes    \* how many times the files were changed from outside

vars == <<fs, cwd, cache, df, dt_long, view, pc, root, changes>>

----------------------------------------------------------------------------
(* Nullable cells: NaT, NaN and <NA> are Null, a value x is Some(x).        *)

Null == <<>>
Some(x) == <<x>>
IsNull(v) == Len(v) = 0
Val(v) == v[1]

Range(s) == {s[i] : i \in 1..Len(s)}

RECURSIVE SumSeq(_)
SumSeq(s) == IF s = <<>> THEN 0 ELSE Head(s) + SumSeq(Tail(s))

(* DataFrame.loc[mask]: the rows whose mask is true, in their order.        *)
RECURSIVE LocFrom(_, _, _)
LocFrom(tbl, mask, i) ==
    IF i > Len(tbl) THEN <<>>
    ELSE (IF mask[i] THEN <<tbl[i]>> ELSE <<>>) \o LocFrom(tbl, mask, i + 1)

Loc(tbl, mask) == LocFrom(tbl, mask, 1)

----------------------------------------------------------------------------
(* Reason aggregate and Pareto                                              *)

TopReasons == 12

(* groupby("Description", as_index=False): the distinct non-null keys in    *)
(* ascending order (null keys are dropped by groupby).                      *)
GroupKeys(dtf) == {Val(r.Description) : r \in {x \in Range(dtf) : ~IsNull(x.Description)}}

RECURSIVE SortedKeys(_)
SortedKeys(S) ==
    IF S = {} THEN <<>>
    ELSE LET k == CHOOSE x \in S : \A y \in S : x <= y
         IN <<k>> \o SortedKeys(S \ {k})

(* ["downtime_min"].sum() of one group *)
RECURSIVE GroupSumFrom(_, _, _)
GroupSumFrom(dtf, k, i) ==
    IF i > Len(dtf) THEN 0
    ELSE (IF dtf[i].Description = Some(k) THEN dtf[i].downtime_min ELSE 0)
         + GroupSumFrom(dtf, k, i + 1)

GroupBySum(dtf) ==
    LET keys == SortedKeys(GroupKeys(dtf))
    IN [i \in 1..Len(keys) |->
            [Description |-> keys[i], downtime_min |-> GroupSumFrom(dtf, keys[i], 1)]]

(* sort_values("downtime_min", ascending=False): insertion of each row      *)
(* behind the rows that are not smaller.  Rows with equal minutes keep      *)
(* their order here; pandas promises no order among them.                   *)
RECURSIVE InsertDesc(_, _)
InsertDesc(sorted, r) ==
    IF sorted = <<>> THEN <<r>>
    ELSE IF Head(sorted).downtime_min >= r.downtime_min
         THEN <<Head(sorted)>> \o InsertDesc(Tail(sorted), r)
         ELSE <<r>> \o sorted

RECURSIVE SortFrom(_, _, _)
SortFrom(tbl, acc, i) ==
    IF i > Len(tbl) THEN acc ELSE SortFrom(tbl, InsertDesc(acc, tbl[i]), i + 1)

SortMinutesDesc(tbl) == SortFrom(tbl, <<>>, 1)

HeadRows(tbl, n) == SubSeq(tbl, 1, IF Len(tbl) < n THEN Len(tbl) ELSE n)

(* Mutant: truncated before sorted. *)
ReasonAggregateHeadFirst(dtf) == SortMinutesDesc(HeadRows(GroupBySum(dtf), TopReasons))

ReasonAggregate(dtf) == HeadRows(SortMinutesDesc(GroupBySum(dtf)), TopReasons)

(* make_pareto: d sorted descending, total, and cum_pct as the fraction     *)
(* <<numerator, denominator>>; the scalar 0 of the else branch is <<0, 1>>. *)
RECURSIVE CumSum(_, _)
CumSum(s, acc) ==
    IF s = <<>> THEN <<>>
    ELSE <<acc + Head(s)>> \o CumSum(Tail(s), acc + Head(s))

(* Mutant: the share of each row instead of the running share. *)
MakeParetoNoCumsum(df_reasons) ==
    LET d == SortMinutesDesc(df_reasons)
        mins == [i \in 1..Len(d) |-> d[i].downtime_min]
        total == SumSeq(mins)
    IN [d |-> d,
        total |-> total,
        cum_pct |-> [i \in 1..Len(d) |-> IF total # 0 THEN <<mins[i], total>> ELSE <<0, 1>>]]

MakePareto(df_reasons) ==
    LET d == SortMinutesDesc(df_reasons)
        mins == [i \in 1..Len(d) |-> d[i].downtime_min]
        total == SumSeq(mins)
        cs == CumSum(mins, 0)
    IN [d |-> d,
        total |-> total,
        cum_pct |-> [i \in 1..Len(d) |-> IF total # 0 THEN <<cs[i], total>> ELSE <<0, 1>>]]

----------------------------------------------------------------------------
(* Timestamps and calendar dates.  A timestamp is a number of ticks since   *)
(* midnight of day 0; a calendar date is a day number.                      *)

MaxDay == 1
Ticks == {0, 1}
TicksPerDay == Cardinality(Ticks)
Timestamps == 0..((MaxDay + 1) * TicksPerDay - 1)

TsDate(t) == t \div TicksPerDay          \* Timestamp.date()
ToDatetime(d) == d * TicksPerDay         \* pd.to_datetime(date): midnight

(* Series.min() and Series.max() skip NaT and give NaT for no value at all. *)
DateValues(tbl) == {Val(r.Date) : r \in {x \in Range(tbl) : ~IsNull(x.Date)}}

SeriesMin(S) == IF S = {} THEN Null ELSE Some(CHOOSE x \in S : \A y \in S : x <= y)
SeriesMax(S) == IF S = {} THEN Null ELSE Some(CHOOSE x \in S : \A y \in S : x >= y)

(* A comparison with NaT is False. *)
DateGe(cell, t) == ~IsNull(cell) /\ Val(cell) >= t

(* Mutant: the end of the range excluded. *)
DateLt(cell, t) == ~IsNull(cell) /\ Val(cell) < t

DateLe(cell, t) == ~IsNull(cell) /\ Val(cell) <= t

(* Series == value: a null cell equals nothing. *)
CellEq(cell, v) == ~IsNull(cell) /\ Val(cell) = v

----------------------------------------------------------------------------
(* main(), lines 94-144: the join, the sidebar and the two masks            *)

All == "All"

(* dt_long.merge(df[[Batch, Date, Product, Operator]], on="Batch",          *)
(* how="left"): every downtime row, in order, once per batch row with the   *)
(* same key (null keys match each other), or once with null fields.         *)
JoinRow(e, b) ==
    [Batch |-> e.Batch, Description |-> e.Description, downtime_min |-> e.downtime_min,
     Date |-> b.Date, Product |-> b.Product, Operator |-> b.Operator]

NoMatch == [Date |-> Null, Product |-> Null, Operator |-> Null]

RECURSIVE MatchesFrom(_, _, _)
MatchesFrom(e, tbl, i) ==
    IF i > Len(tbl) THEN <<>>
    ELSE (IF tbl[i].Batch = e.Batch THEN <<JoinRow(e, tbl[i])>> ELSE <<>>)
         \o MatchesFrom(e, tbl, i + 1)

RECURSIVE MergeFrom(_, _, _)
MergeFrom(events, tbl, i) ==
    IF i > Len(events) THEN <<>>
    ELSE LET m == MatchesFrom(events[i], tbl, 1)
         IN (IF m = <<>> THEN <<JoinRow(events[i], NoMatch)>> ELSE m)
            \o MergeFrom(events, tbl, i + 1)

MergeLeft(events, tbl) == MergeFrom(events, tbl, 1)

(* The options of the two select boxes: "All" and the non-null values. *)
ProductOptions(tbl) ==
    {All} \cup {Val(r.Product) : r \in {x \in Range(tbl) : ~IsNull(x.Product)}}
OperatorOptions(tbl) ==
    {All} \cup {Val(r.Operator) : r \in {x \in Range(tbl) : ~IsNull(x.Operator)}}

(* What st.sidebar.date_input can return between min_value and max_value:   *)
(* a pair of dates in order, a single date while a range is being picked,   *)
(* or nothing once the field is cleared.                                    *)
DateRanges(lo, hi) ==
    {p \in (lo..hi) \X (lo..hi) : p[1] <= p[2]} \cup {<<a>> : a \in lo..hi} \cup {<<>>}

(* Mutant: a single picked date taken as the start. *)
StartDateFromFirst(date_range, min_date) ==
    IF Len(date_range) >= 1 THEN ToDatetime(date_range[1]) ELSE ToDatetime(TsDate(min_date))

StartDate(date_range, min_date) ==
    IF Len(date_range) = 2 THEN ToDatetime(date_range[1]) ELSE ToDatetime(TsDate(min_date))

EndDate(date_range, max_date) ==
    IF Len(date_range) = 2 THEN ToDatetime(date_range[2]) ELSE ToDatetime(TsDate(max_date))

(* mask, lines 130-134 *)
BatchMask(tbl, start_date, end_date, selected_product, selected_operator) ==
    [i \in 1..Len(tbl) |->
        LET m0 == DateGe(tbl[i].Date, start_date) /\ DateLe(tbl[i].Date, end_date)
            m1 == IF selected_product # All
                  THEN m0 /\ CellEq(tbl[i].Product, selected_product) ELSE m0
            m2 == IF selected_operator # All
                  THEN m1 /\ CellEq(tbl[i].Operator, selected_operator) ELSE m1
        IN m2]

(* mask_dt, lines 138-142 *)
DowntimeMask(join, start_date, end_date, selected_product, selected_operator) ==
    [i \in 1..Len(join) |->
        LET m0 == DateGe(join[i].Date, start_date) /\ DateLe(join[i].Date, end_date)
            m1 == IF selected_product # All
                  THEN m0 /\ CellEq(join[i].Product, selected_product) ELSE m0
            m2 == IF selected_operator # All
                  THEN m1 /\ CellEq(join[i].Operator, selected_operator) ELSE m1
        IN m2]

----------------------------------------------------------------------------
(* main(), lines 150-216: KPI cards, daily trend, Pareto, worst batches.    *)
(* Of the numeric columns only downtime_total_min is kept; the means of     *)
(* downtime_rate, run_ratio and duration_min are not represented.           *)

WorstRows == 15

KpiCards(dff) ==
    [total_downtime |-> SumSeq([i \in 1..Len(dff) |-> dff[i].downtime_total_min]),
     total_batches |-> Cardinality({Val(r.Batch) : r \in {x \in Range(dff) : ~IsNull(x.Batch)}})]

RECURSIVE DaySumFrom(_, _, _)
DaySumFrom(dff, day, i) ==
    IF i > Len(dff) THEN 0
    ELSE (IF TsDate(Val(dff[i].Date)) = day THEN dff[i].downtime_total_min ELSE 0)
         + DaySumFrom(dff, day, i + 1)

(* groupby("day").agg(...).sort_values("day") *)
DailyRollup(dff) ==
    LET days == SortedKeys({TsDate(t) : t \in DateValues(dff)})
    IN [i \in 1..Len(days) |->
            [day |-> days[i], total_downtime |-> DaySumFrom(dff, days[i], 1)]]

RECURSIVE InsertTotalDesc(_, _)
InsertTotalDesc(sorted, r) ==
    IF sorted = <<>> THEN <<r>>
    ELSE IF Head(sorted).downtime_total_min >= r.downtime_total_min
         THEN <<Head(sorted)>> \o InsertTotalDesc(Tail(sorted), r)
         ELSE <<r>> \o sorted

RECURSIVE SortTotalFrom(_, _, _)
SortTotalFrom(tbl, acc, i) ==
    IF i > Len(tbl) THEN acc ELSE SortTotalFrom(tbl, InsertTotalDesc(acc, tbl[i]), i + 1)

WorstBatches(dff) == HeadRows(SortTotalFrom(dff, <<>>, 1), WorstRows)

NoPareto == [d |-> <<>>, total |-> 0, cum_pct |-> <<>>]
NoKpi == [total_downtime |-> 0, total_batches |-> 0]

(* What a run that stopped early leaves uncomputed. *)
BlankView ==
    [outcome |-> "none", steps |-> <<>>, root |-> Null, cache_hit |-> FALSE,
     input |-> Null, start_date |-> Null, end_date |-> Null,
     dt_join |-> <<>>, dff |-> <<>>, dtf |-> <<>>, kpi |-> NoKpi, daily |-> <<>>,
     reasons |-> <<>>, pareto |-> NoPareto, worst |-> <<>>]

(* lines 78-85: what every run does before the tables are there *)
Prologue == <<"set_page_config", "title", "find_project_root", "caption", "load_data">>

(* Mutant: the error shown and the run not stopped. *)
MissingDataViewNoStop(r) ==
    [BlankView EXCEPT !.outcome = "missing_data_error", !.root = Some(r),
                      !.steps = Prologue \o <<"error:parquet_not_found", "merge",
                                              "sidebar.header">>]

(* lines 86-92 *)
MissingDataView(r) ==
    [BlankView EXCEPT !.outcome = "missing_data_error", !.root = Some(r),
                      !.steps = Prologue \o <<"error:parquet_not_found", "stop">>]

(* Mutant: the chart built whatever the aggregate holds. *)
ParetoPanelAlways(reasons) ==
    [steps |-> <<"make_pareto", "plotly_chart:pareto">>, pareto |-> MakePareto(reasons)]

(* lines 192-205: the Pareto panel *)
ParetoPanel(reasons) ==
    IF reasons = <<>>
    THEN [steps |-> <<"info:no_reasons">>, pareto |-> NoPareto]
    ELSE [steps |-> <<"make_pareto", "plotly_chart:pareto">>, pareto |-> MakePareto(reasons)]

(* lines 150-216: everything behind the empty check *)
Panels(v) ==
    LET reasons == ReasonAggregate(v.dtf)
        panel == ParetoPanel(reasons)
    IN [v EXCEPT !.outcome = "rendered",
                 !.kpi = KpiCards(v.dff),
                 !.daily = DailyRollup(v.dff),
                 !.reasons = reasons,
                 !.pareto = panel.pareto,
                 !.worst = WorstBatches(v.dff),
                 !.steps = v.steps
                           \o <<"kpi", "metric:total_downtime", "metric:avg_downtime_rate",
                                "metric:avg_run_ratio", "metric:batches",
                                "daily", "plotly_chart:daily_total", "plotly_chart:daily_rate",
                                "reasons">>
                           \o panel.steps
                           \o <<"worst", "dataframe:worst">>]

(* Mutant: the warning shown and the run not stopped. *)
FilteredNoStop(v, tbl, input, min_date, max_date) ==
    LET start_date == StartDate(input.date_range, min_date)
        end_date == EndDate(input.date_range, max_date)
        dff == Loc(tbl, BatchMask(tbl, start_date, end_date, input.product, input.operator))
        dtf == Loc(v.dt_join,
                   DowntimeMask(v.dt_join, start_date, end_date, input.product, input.operator))
        w == [v EXCEPT !.input = Some(input),
                       !.start_date = Some(start_date), !.end_date = Some(end_date),
                       !.dff = dff, !.dtf = dtf,
                       !.steps = v.steps \o <<"date_input", "selectbox:product",
                                              "selectbox:operator", "mask", "mask_dt">>]
    IN IF dff = <<>>
       THEN Panels([w EXCEPT !.steps = w.steps \o <<"warning:no_data">>])
       ELSE Panels(w)

(* lines 111-148: the controls, the masks and the empty check *)
Filtered(v, tbl, input, min_date, max_date) ==
    LET start_date == StartDate(input.date_range, min_date)
        end_date == EndDate(input.date_range, max_date)
        mask == BatchMask(tbl, start_date, end_date, input.product, input.operator)
        dff == Loc(tbl, mask)
        mask_dt == DowntimeMask(v.dt_join, start_date, end_date, input.product, input.operator)
        dtf == Loc(v.dt_join, mask_dt)
        w == [v EXCEPT !.input = Some(input),
                       !.start_date = Some(start_date), !.end_date = Some(end_date),
                       !.dff = dff, !.dtf = dtf,
                       !.steps = v.steps \o <<"date_input", "selectbox:product",
                                              "selectbox:operator", "mask", "mask_dt">>]
    IN IF dff = <<>>
       THEN [w EXCEPT !.outcome = "no_data_warning",
                      !.steps = w.steps \o <<"warning:no_data", "stop">>]
       ELSE Panels(w)

(* lines 94-216: main() once load_data has returned (tbl, events) *)
LoadedView(r, hit, tbl, events, input) ==
    LET v == [BlankView EXCEPT !.root = Some(r), !.cache_hit = hit,
                               !.dt_join = MergeLeft(events, tbl),
                               !.steps = Prologue \o <<"merge", "sidebar.header">>]
        min_date == SeriesMin(DateValues(tbl))
        max_date == SeriesMax(DateValues(tbl))
    IN IF IsNull(min_date) \/ IsNull(max_date)
       THEN [v EXCEPT !.outcome = "date_error",
                      !.steps = v.steps \o <<"error:date_unreadable", "stop">>]
       ELSE Filtered(v, tbl, input, Val(min_date), Val(max_date))

(* The widget values a run over tbl can see. *)
NoInput == [date_range |-> <<>>, product |-> All, operator |-> All]

InputsFor(tbl) ==
    LET lo == SeriesMin(DateValues(tbl))
        hi == SeriesMax(DateValues(tbl))
    IN IF IsNull(lo) \/ IsNull(hi) THEN {NoInput}
       ELSE [date_range : DateRanges(TsDate(Val(lo)), TsDate(Val(hi))),
             product : ProductOptions(tbl),
             operator : OperatorOptions(tbl)]

----------------------------------------------------------------------------
(* The tables load_data can return, within bounds.                          *)

Dates == {Null} \cup {Some(t) : t \in Timestamps}

BatchIds == {1, 2}

(* Product and operator of a batch row. *)
BatchCells ==
    {<<Some("P1"), Some("O1")>>, <<Some("P1"), Some("O2")>>, <<Some("P2"), Some("O1")>>,
     <<Null, Some("O1")>>, <<Some("P1"), Null>>}

BatchRowsAt(i) ==
    {[Date |-> d, Batch |-> b, Product |-> c[1], Operator |-> c[2],
      downtime_total_min |-> 20 * i - 10] :
        d \in Dates, b \in {Some(i), Null}, c \in BatchCells}

BatchRows == UNION {BatchRowsAt(i) : i \in BatchIds}

IsBatchTable(t) == \A i \in 1..Len(t) : t[i] \in BatchRowsAt(i)

(* A downtime row of any batch, of a batch that is in no batch row (3) or   *)
(* of no batch; one row without a description.                              *)
EventRows ==
    {[Batch |-> b, Description |-> Some(1), downtime_min |-> 5] :
        b \in {Null} \cup {Some(i) : i \in BatchIds \cup {3}}}
        \cup {[Batch |-> Some(1), Description |-> Null, downtime_min |-> 5]}

EventTables == {<<>>} \cup {<<e>> : e \in EventRows}

(* Variables a specification does not use. *)
NoFs == <<>>
NoCache == <<>>

----------------------------------------------------------------------------
(* SpecFilter: main() behind load_data, over every table of the bounds.     *)

InitFilter ==
    /\ \E n \in 0..Cardinality(BatchIds) : \E t \in [1..n -> BatchRows] :
          IsBatchTable(t) /\ df = t
    /\ dt_long \in EventTables
    /\ view = BlankView
    /\ fs = NoFs /\ cwd = 0 /\ cache = NoCache /\ pc = "idle" /\ root = 0 /\ changes = 0

(* A run computes its page from the tables and the widgets alone, so the    *)
(* first run over a pair of tables already shows every page there is.       *)
Rerun ==
    /\ view.outcome = "none"
    /\ \E input \in InputsFor(df) : view' = LoadedView(cwd, FALSE, df, dt_long, input)
    /\ UNCHANGED <<fs, cwd, cache, df, dt_long, pc, root, changes>>

NextFilter == Rerun

SpecFilter == InitFilter /\ [][NextFilter]_vars

----------------------------------------------------------------------------
(* SpecReasons: lines 150-216 over filtered joined views with up to         *)
(* NumDescs downtime descriptions.                                          *)

NumDescs == 13

JoinedRow(desc, minutes) ==
    [Batch |-> Some(1), Description |-> desc, downtime_min |-> minutes,
     Date |-> Some(0), Product |-> Some("P1"), Operator |-> Some("O1")]

(* One row per description n, n-1, ..., 1: 3 minutes for description hi,    *)
(* none for description lo, 2 for both in one, 1 minute for the others.     *)
BaseMinutes(d, hi, lo) == 1 + (IF d = hi THEN 2 ELSE 0) - (IF d = lo THEN 1 ELSE 0)

BaseRows(n, hi, lo) ==
    [i \in 1..n |-> JoinedRow(Some(n + 1 - i), BaseMinutes(n + 1 - i, hi, lo))]

ExtraRows ==
    {<<>>, <<JoinedRow(Null, 1)>>, <<JoinedRow(Some(1), -3)>>,
     <<JoinedRow(Some(2), 1)>>, <<JoinedRow(Some(2), 2)>>}

OneBatch ==
    <<[Date |-> Some(0), Batch |-> Some(1), Product |-> Some("P1"), Operator |-> Some("O1"),
       downtime_total_min |-> 10]>>

InitReasons ==
    /\ df = OneBatch
    /\ dt_long = <<>>
    /\ \E n \in 0..NumDescs : \E hi \in 0..n : \E lo \in 0..n : \E extra \in ExtraRows :
          view = [BlankView EXCEPT !.outcome = "filtered", !.dff = OneBatch,
                                   !.dtf = BaseRows(n, hi, lo) \o extra]
    /\ fs = NoFs /\ cwd = 0 /\ cache = NoCache /\ pc = "idle" /\ root = 0 /\ changes = 0

RenderPanels ==
    /\ view.outcome = "filtered"
    /\ view' = Panels(view)
    /\ UNCHANGED <<fs, cwd, cache, df, dt_long, pc, root, changes>>

NextReasons == RenderPanels

SpecReasons == InitReasons /\ [][NextReasons]_vars

----------------------------------------------------------------------------
(* The directories on the path from the filesystem root to the working      *)
(* directory, by depth: 0 is the filesystem root, its own parent.           *)

MaxDepth == 2
Depths == 0..MaxDepth

Parent(d) == IF d = 0 THEN 0 ELSE d - 1

BareDir == [data_raw |-> FALSE, data_processed |-> FALSE, batches |-> Null, downtime |-> Null]

(* Mutant: data_raw not looked for. *)
HasProcessedOnly(dir) == dir.data_processed

(* line 14 *)
HasDataFolder(dir) == dir.data_processed \/ dir.data_raw

(* line 13: the loop runs while root != root.parent *)
AtTop(r) == r = Parent(r)

(* find_project_root as a function of the directories, lines 11-17 *)
RECURSIVE WalkUp(_, _, _)
WalkUp(dirs, r, start) ==
    IF AtTop(r) THEN start
    ELSE IF HasDataFolder(dirs[r]) THEN r
    ELSE WalkUp(dirs, Parent(r), start)

FindProjectRoot(dirs, start) == WalkUp(dirs, start, start)

----------------------------------------------------------------------------
(* SpecRoot: find_project_root statement by statement.                      *)

InitRoot ==
    /\ cwd \in Depths
    /\ \E raw \in [Depths -> BOOLEAN] : \E processed \in [Depths -> BOOLEAN] :
          fs = [d \in Depths |->
                   [BareDir EXCEPT !.data_raw = raw[d], !.data_processed = processed[d]]]
    /\ pc = "idle" /\ root = 0
    /\ view = BlankView
    /\ cache = NoCache /\ df = <<>> /\ dt_long = <<>> /\ changes = 0

(* line 12 *)
EnterFind ==
    /\ pc = "idle"
    /\ root' = cwd
    /\ pc' = "loop"
    /\ UNCHANGED <<fs, cwd, cache, df, dt_long, view, changes>>

(* lines 13-15: the folder is there, return root *)
ReturnFound ==
    /\ pc = "loop"
    /\ ~AtTop(root)
    /\ HasDataFolder(fs[root])
    /\ view' = [view EXCEPT !.root = Some(root)]
    /\ pc' = "done"
    /\ UNCHANGED <<fs, cwd, cache, df, dt_long, root, changes>>

(* lines 13-16: no folder here, go to the parent *)
Ascend ==
    /\ pc = "loop"
    /\ ~AtTop(root)
    /\ ~HasDataFolder(fs[root])
    /\ root' = Parent(root)
    /\ UNCHANGED <<fs, cwd, cache, df, dt_long, view, pc, changes>>

(* lines 13, 17: the loop ends, return the working directory *)
ReturnCwd ==
    /\ pc = "loop"
    /\ AtTop(root)
    /\ view' = [view EXCEPT !.root = Some(cwd)]
    /\ pc' = "done"
    /\ UNCHANGED <<fs, cwd, cache, df, dt_long, root, changes>>

NextRoot == EnterFind \/ ReturnFound \/ Ascend \/ ReturnCwd

SpecRoot == InitRoot /\ [][NextRoot]_vars

(* A call that has started keeps running: nothing else shares the thread. *)
FairRoot == SpecRoot /\ WF_vars(NextRoot)

----------------------------------------------------------------------------
(* load_data, lines 20-33.  A raw Date cell is <<"ts", t>> (a timestamp or  *)
(* a text that parses to one), <<"text">> (anything else) or Null; a raw    *)
(* Batch cell is <<"num", n>>, <<"text">> or Null.                          *)

(* pd.to_datetime(..., errors="coerce") *)
CoerceDatetime(c) == IF Len(c) = 2 /\ c[1] = "ts" THEN Some(c[2]) ELSE Null

(* pd.to_numeric(..., errors="coerce").astype("Int64") *)
CoerceNumeric(c) == IF Len(c) = 2 /\ c[1] = "num" THEN Some(c[2]) ELSE Null

NormalizeBatches(raw) ==
    [i \in 1..Len(raw) |->
        [raw[i] EXCEPT !.Date = CoerceDatetime(raw[i].Date),
                       !.Batch = CoerceNumeric(raw[i].Batch)]]

NormalizeDowntime(raw) ==
    [i \in 1..Len(raw) |-> [raw[i] EXCEPT !.Batch = CoerceNumeric(raw[i].Batch)]]

(* read_parquet raises FileNotFoundError unless the file is there. *)
CanRead(dir) == dir.data_processed /\ ~IsNull(dir.batches) /\ ~IsNull(dir.downtime)

LoadData(dir) ==
    [batches |-> NormalizeBatches(Val(dir.batches)),
     downtime |-> NormalizeDowntime(Val(dir.downtime))]

(* Mutant: the function not memoized. *)
IsCachedNever(entries, r) == FALSE

(* st.cache_data: an entry for the argument answers the call. *)
IsCached(entries, r) == ~IsNull(entries[r])

----------------------------------------------------------------------------
(* The files the model writes. *)

RawBatchRow(date, total) ==
    [Date |-> date, Batch |-> <<"num", 1>>, Product |-> Some("P1"), Operator |-> Some("O1"),
     downtime_total_min |-> total]

RawBatchFiles ==
    {<<RawBatchRow(<<"ts", 0>>, 10)>>,
     <<RawBatchRow(<<"ts", 0>>, 30)>>,
     <<RawBatchRow(<<"text">>, 10)>>}

RawDowntimeFiles ==
    {<<[Batch |-> <<"num", 1>>, Description |-> Some(1), downtime_min |-> 5]>>,
     <<[Batch |-> <<"text">>, Description |-> Some(1), downtime_min |-> 5]>>}

FirstBatchFile == <<RawBatchRow(<<"ts", 0>>, 10)>>
FirstDowntimeFile == <<[Batch |-> <<"num", 1>>, Description |-> Some(1), downtime_min |-> 5]>>

InitDirs ==
    {BareDir,
     [BareDir EXCEPT !.data_processed = TRUE, !.batches = Some(FirstBatchFile)],
     [BareDir EXCEPT !.data_processed = TRUE, !.batches = Some(FirstBatchFile),
                     !.downtime = Some(FirstDowntimeFile)]}

MaxChanges == 1

----------------------------------------------------------------------------
(* Spec: runs of main() in one process, and the files changing under it.    *)

Init ==
    /\ cwd = MaxDepth
    /\ \E dirs \in [Depths \ {0} -> InitDirs] :
          fs = [d \in Depths |-> IF d = 0 THEN BareDir ELSE dirs[d]]
    /\ cache = [d \in Depths |-> Null]
    /\ df = <<>> /\ dt_long = <<>>
    /\ view = BlankView
    /\ pc = "idle" /\ root = 0 /\ changes = 0

(* main() when load_data is answered from the cache *)
RunCached ==
    LET r == FindProjectRoot(fs, cwd) IN
    /\ IsCached(cache, r)
    /\ df' = Val(cache[r]).batches
    /\ dt_long' = Val(cache[r]).downtime
    /\ \E input \in InputsFor(df') : view' = LoadedView(r, TRUE, df', dt_long', input)
    /\ UNCHANGED <<fs, cwd, cache, pc, root, changes>>

(* main() when load_data reads the two files *)
RunLoad ==
    LET r == FindProjectRoot(fs, cwd) IN
    /\ ~IsCached(cache, r)
    /\ CanRead(fs[r])
    /\ cache' = [cache EXCEPT ![r] = Some(LoadData(fs[r]))]
    /\ df' = LoadData(fs[r]).batches
    /\ dt_long' = LoadData(fs[r]).downtime
    /\ \E input \in InputsFor(df') : view' = LoadedView(r, FALSE, df', dt_long', input)
    /\ UNCHANGED <<fs, cwd, pc, root, changes>>

(* main() when load_data raises FileNotFoundError *)
RunMissing ==
    LET r == FindProjectRoot(fs, cwd) IN
    /\ ~IsCached(cache, r)
    /\ ~CanRead(fs[r])
    /\ view' = MissingDataView(r)
    /\ UNCHANGED <<fs, cwd, cache, df, dt_long, pc, root, changes>>

(* The files change from outside the process. *)
MakeFolder ==
    /\ changes < MaxChanges
    /\ \E d \in Depths \ {0} :
          \/ ~fs[d].data_raw /\ fs' = [fs EXCEPT ![d].data_raw = TRUE]
          \/ ~fs[d].data_processed /\ fs' = [fs EXCEPT ![d].data_processed = TRUE]
    /\ changes' = changes + 1
    /\ UNCHANGED <<cwd, cache, df, dt_long, view, pc, root>>

RemoveFolder ==
    /\ changes < MaxChanges
    /\ \E d \in Depths \ {0} :
          \/ fs[d].data_raw /\ fs' = [fs EXCEPT ![d].data_raw = FALSE]
          \/ fs[d].data_processed
             /\ fs' = [fs EXCEPT ![d].data_processed = FALSE, ![d].batches = Null,
                                 ![d].downtime = Null]
    /\ changes' = changes + 1
    /\ UNCHANGED <<cwd, cache, df, dt_long, view, pc, root>>

WriteFile ==
    /\ changes < MaxChanges
    /\ \E d \in Depths \ {0} :
          /\ fs[d].data_processed
          /\ \/ \E f \in RawBatchFiles :
                   fs[d].batches # Some(f) /\ fs' = [fs EXCEPT ![d].batches = Some(f)]
             \/ \E f \in RawDowntimeFiles :
                   fs[d].downtime # Some(f) /\ fs' = [fs EXCEPT ![d].downtime = Some(f)]
    /\ changes' = changes + 1
    /\ UNCHANGED <<cwd, cache, df, dt_long, view, pc, root>>

RemoveFile ==
    /\ changes < MaxChanges
    /\ \E d \in Depths \ {0} :
          \/ ~IsNull(fs[d].batches) /\ fs' = [fs EXCEPT ![d].batches = Null]
          \/ ~IsNull(fs[d].downtime) /\ fs' = [fs EXCEPT ![d].downtime = Null]
    /\ changes' = changes + 1
    /\ UNCHANGED <<cwd, cache, df, dt_long, view, pc, root>>

Next ==
    \/ RunCached \/ RunLoad \/ RunMissing
    \/ MakeFolder \/ RemoveFolder \/ WriteFile \/ RemoveFile

Spec == Init /\ [][Next]_vars

----------------------------------------------------------------------------
(* Properties                                                               *)

(* The run got as far as the two masks. *)
FiltersApplied == view.outcome \in {"no_data_warning", "rendered"}

PanelSteps ==
    {"kpi", "metric:total_downtime", "metric:avg_downtime_rate", "metric:avg_run_ratio",
     "metric:batches", "daily", "plotly_chart:daily_total", "plotly_chart:daily_rate",
     "reasons", "info:no_reasons", "make_pareto", "plotly_chart:pareto", "worst",
     "dataframe:worst"}

ControlSteps == {"date_input", "selectbox:product", "selectbox:operator", "mask", "mask_dt"}

LastTwo(steps) == SubSeq(steps, Len(steps) - 1, Len(steps))

ColumnSum(tbl) == SumSeq([i \in 1..Len(tbl) |-> tbl[i].downtime_total_min])

(* The predicate of the filter on one row, batch or joined. *)
C1_Selected(row) ==
    LET sel == Val(view.input) IN
    /\ ~IsNull(row.Date)
    /\ Val(view.start_date) <= Val(row.Date)
    /\ Val(row.Date) <= Val(view.end_date)
    /\ (sel.product = All \/ row.Product = Some(sel.product))
    /\ (sel.operator = All \/ row.Operator = Some(sel.operator))

(* C1: the filtered batch records are exactly the batch rows with           *)
(* start <= Date <= end, the selected product (or "All") and the selected   *)
(* operator (or "All"); the filtered joined view is exactly the joined rows *)
(* with the same predicate on their joined fields.                          *)
C1_FilterIsPredicate ==
    FiltersApplied =>
        /\ view.dff = SelectSeq(df, C1_Selected)
        /\ view.dtf = SelectSeq(view.dt_join, C1_Selected)

(* C1 witness: both selections narrow, a batch row and a joined row are     *)
(* kept and a batch row is left out.                                        *)
C1_Witness ==
    /\ view.outcome = "rendered"
    /\ Val(view.input).product # All
    /\ Val(view.input).operator # All
    /\ Len(view.dff) = 1 /\ Len(df) = 2
    /\ Len(view.dtf) = 1

(* C2: with the full observed date range, "All" and "All", and every Date   *)
(* readable, no batch row is dropped.                                       *)
C2_FullRangeKeepsAll ==
    LET lo == SeriesMin(DateValues(df))
        hi == SeriesMax(DateValues(df))
    IN (/\ FiltersApplied
        /\ \A i \in 1..Len(df) : ~IsNull(df[i].Date)
        /\ Val(view.input).product = All
        /\ Val(view.input).operator = All
        /\ Val(view.input).date_range = <<TsDate(Val(lo)), TsDate(Val(hi))>>)
       => view.dff = df

FracLeq(x, y) ==
    IF x[2] * y[2] > 0 THEN x[1] * y[2] <= y[1] * x[2] ELSE x[1] * y[2] >= y[1] * x[2]

ReasonsTotal == SumSeq([i \in 1..Len(view.reasons) |-> view.reasons[i].downtime_min])

ParetoShown == view.outcome = "rendered" /\ view.reasons # <<>>

C3_Order ==
    /\ Len(view.pareto.d) = Len(view.reasons)
    /\ Len(view.pareto.cum_pct) = Len(view.reasons)
    /\ \A i \in 1..(Len(view.pareto.d) - 1) :
          view.pareto.d[i].downtime_min >= view.pareto.d[i + 1].downtime_min

C3_Monotone ==
    \A i \in 1..(Len(view.pareto.cum_pct) - 1) :
        FracLeq(view.pareto.cum_pct[i], view.pareto.cum_pct[i + 1])

C3_Ends ==
    LET c == view.pareto.cum_pct IN
    /\ ReasonsTotal > 0 => c[Len(c)][1] = c[Len(c)][2]
    /\ ReasonsTotal = 0 => \A i \in 1..Len(c) : c[i][1] = 0

(* C3 as stated: for every non-empty reason aggregate the cumulative        *)
(* fraction over the descending rows never decreases, ends at 1 when the    *)
(* total is positive and is 0 everywhere when the total is 0.               *)
C3_AsStated == ParetoShown => C3_Order /\ C3_Monotone /\ C3_Ends

(* C3 amended: the cumulative fraction never decreases when no summed       *)
(* minutes are negative; for every non-empty reason aggregate it ends at 1  *)
(* when the total is positive and is 0 everywhere when the total is 0.      *)
C3_ParetoFractions ==
    ParetoShown =>
        /\ C3_Order
        /\ (\A i \in 1..Len(view.reasons) : view.reasons[i].downtime_min >= 0) => C3_Monotone
        /\ C3_Ends

(* C3 witness: minutes in the ratio 60 : 40 give the fractions 0.6 and 1.0. *)
C3_Witness ==
    /\ ParetoShown
    /\ view.pareto.cum_pct = <<<<3, 5>>, <<5, 5>>>>

(* C4: an empty filtered batch subset ends the run with the warning: no KPI,*)
(* rollup, chart, reason aggregate or table follows, and no error is shown. *)
C4_EmptyHalts ==
    (FiltersApplied /\ view.dff = <<>>) =>
        /\ view.outcome = "no_data_warning"
        /\ LastTwo(view.steps) = <<"warning:no_data", "stop">>
        /\ Range(view.steps) \cap PanelSteps = {}
        /\ Range(view.steps) \cap {"error:parquet_not_found", "error:date_unreadable"} = {}
        /\ view.kpi = NoKpi /\ view.daily = <<>> /\ view.reasons = <<>>
        /\ view.pareto = NoPareto /\ view.worst = <<>>

(* C4 witness: a table with readable dates whose rows the selection misses. *)
C4_Witness ==
    /\ view.outcome = "no_data_warning"
    /\ Len(df) = 2
    /\ \A i \in 1..Len(df) : ~IsNull(df[i].Date)
    /\ "mask_dt" \in Range(view.steps)

(* C5: with batch rows left and no reason to show, only the Pareto panel is *)
(* replaced by the message; the four metrics, the two trend charts and the  *)
(* worst-batches table are computed from the filtered batch records.        *)
C5_OnlyParetoSuppressed ==
    (FiltersApplied /\ view.dff # <<>> /\ view.reasons = <<>>) =>
        /\ view.outcome = "rendered"
        /\ "info:no_reasons" \in Range(view.steps)
        /\ Range(view.steps) \cap {"make_pareto", "plotly_chart:pareto", "stop",
                                   "warning:no_data"} = {}
        /\ view.pareto = NoPareto
        /\ PanelSteps \ {"make_pareto", "plotly_chart:pareto"} \subseteq Range(view.steps)
        /\ view.kpi.total_downtime = ColumnSum(view.dff)
        /\ Len(view.daily) >= 1
        /\ SumSeq([i \in 1..Len(view.daily) |-> view.daily[i].total_downtime])
              = ColumnSum(view.dff)
        /\ Range(view.worst) = Range(view.dff)

(* C5 witness: batch rows are left, the filtered joined view holds a row    *)
(* without a description, and the reason aggregate is empty.                *)
C5_Witness ==
    /\ view.outcome = "rendered"
    /\ view.reasons = <<>>
    /\ view.dtf # <<>>
    /\ "dataframe:worst" \in Range(view.steps)

(* The run of a step that leaves the files alone and changes the page. *)
Located(v) == ~IsNull(v.root)

(* C6: when load_data has to read and one of the two files is absent under  *)
(* the located root, the run shows the missing-data error and stops:        *)
(* nothing is joined, filtered, computed or cached.                         *)
C6_MissingDataHalts ==
    [][(fs' = fs /\ view' # view /\ Located(view')) =>
          LET r == Val(view'.root)
              absent == \/ ~fs[r].data_processed
                        \/ IsNull(fs[r].batches)
                        \/ IsNull(fs[r].downtime)
          IN (IsNull(cache[r]) /\ absent) =>
                /\ view'.outcome = "missing_data_error"
                /\ LastTwo(view'.steps) = <<"error:parquet_not_found", "stop">>
                /\ Range(view'.steps)
                      \cap (ControlSteps \cup PanelSteps \cup {"merge", "sidebar.header"}) = {}
                /\ Len(view'.steps) = Len(Prologue) + 2
                /\ cache' = cache]_vars

(* C6 witness: the error is on the page of a root that has the batch file   *)
(* and lacks the downtime file.                                             *)
C6_Witness ==
    /\ view.outcome = "missing_data_error"
    /\ fs[Val(view.root)].data_processed
    /\ ~IsNull(fs[Val(view.root)].batches)
    /\ IsNull(fs[Val(view.root)].downtime)

ReadableDates == {Val(df[i].Date) : i \in {j \in 1..Len(df) : ~IsNull(df[j].Date)}}

(* Midnight of the day of timestamp t. *)
Midnight(t) == t - (t % TicksPerDay)

(* C7: with no readable Date the run shows the date error and stops before  *)
(* any control or mask, and never the no-data warning; with readable dates  *)
(* and no two-date selection, start and end are the first and last observed *)
(* dates.                                                                   *)
C7_UnreadableDatesHalt ==
    view.outcome # "none" =>
        IF ReadableDates = {}
        THEN /\ view.outcome = "date_error"
             /\ LastTwo(view.steps) = <<"error:date_unreadable", "stop">>
             /\ Range(view.steps)
                   \cap (ControlSteps \cup PanelSteps \cup {"warning:no_data"}) = {}
        ELSE /\ view.outcome # "date_error"
             /\ "error:date_unreadable" \notin Range(view.steps)
             /\ Len(Val(view.input).date_range) # 2 =>
                   /\ \E t \in ReadableDates :
                         /\ \A u \in ReadableDates : t <= u
                         /\ view.start_date = Some(Midnight(t))
                   /\ \E t \in ReadableDates :
                         /\ \A u \in ReadableDates : t >= u
                         /\ view.end_date = Some(Midnight(t))

(* C7 witness: two batch rows, neither with a readable Date, and the error. *)
C7_Witness ==
    /\ view.outcome = "date_error"
    /\ Len(df) = 2

(* C8: an entry of the cache never changes; a run whose root has an entry   *)
(* works on the tables of that entry whatever the files hold now; the files *)
(* are read only for a root without an entry.                               *)
C8_FirstLoadWins ==
    [][/\ \A r \in Depths : ~IsNull(cache[r]) => cache'[r] = cache[r]
       /\ (fs' = fs /\ view' # view /\ Located(view')) =>
             LET r == Val(view'.root)
             IN IF ~IsNull(cache[r])
                THEN /\ df' = Val(cache[r]).batches
                     /\ dt_long' = Val(cache[r]).downtime
                     /\ view'.cache_hit
                     /\ cache' = cache
                ELSE /\ ~view'.cache_hit
                     /\ \A q \in Depths \ {r} : cache'[q] = cache[q]]_vars

(* C8 witness: a run answered from the cache while the batch file of its    *)
(* root holds something else.                                               *)
C8_Witness ==
    /\ view.cache_hit
    /\ view.outcome = "rendered"
    /\ ~IsNull(fs[Val(view.root)].batches)
    /\ NormalizeBatches(Val(fs[Val(view.root)].batches)) # df

C9_Descriptions ==
    {Val(view.dtf[i].Description) : i \in {j \in 1..Len(view.dtf) : ~IsNull(view.dtf[j].Description)}}

C9_SumOf(d) ==
    SumSeq([i \in 1..Len(view.dtf) |->
               IF view.dtf[i].Description = Some(d) THEN view.dtf[i].downtime_min ELSE 0])

C9_Kept == {view.reasons[i].Description : i \in 1..Len(view.reasons)}

(* C9: the reason aggregate has one row per description with the sum of its *)
(* minutes, in descending order of the sums, at most 12 rows, and the rows  *)
(* left out have no larger sum than any row kept.                           *)
C9_ReasonAggregate ==
    view.outcome = "rendered" =>
        /\ Len(view.reasons) <= 12
        /\ Len(view.reasons)
              = (IF Cardinality(C9_Descriptions) < 12 THEN Cardinality(C9_Descriptions) ELSE 12)
        /\ Cardinality(C9_Kept) = Len(view.reasons)
        /\ C9_Kept \subseteq C9_Descriptions
        /\ \A i \in 1..Len(view.reasons) :
              view.reasons[i].downtime_min = C9_SumOf(view.reasons[i].Description)
        /\ \A i \in 1..(Len(view.reasons) - 1) :
              view.reasons[i].downtime_min >= view.reasons[i + 1].downtime_min
        /\ \A d \in C9_Descriptions \ C9_Kept : \A i \in 1..Len(view.reasons) :
              C9_SumOf(d) <= view.reasons[i].downtime_min

(* C9 witness: thirteen descriptions, the last of them with the largest sum *)
(* and kept first, one description left out.                                *)
C9_Witness ==
    /\ view.outcome = "rendered"
    /\ Cardinality(C9_Descriptions) = 13
    /\ Len(view.reasons) = 12
    /\ view.reasons[1].Description = 13
    /\ view.reasons[1].downtime_min > view.reasons[2].downtime_min

(* The nearest directory at depth lowest or deeper, on the way up from the  *)
(* working directory, that holds a data folder; the working directory if    *)
(* there is none.                                                           *)
C10_Nearest(lowest) ==
    LET M == {d \in lowest..cwd : fs[d].data_processed \/ fs[d].data_raw}
    IN IF M = {} THEN cwd ELSE CHOOSE d \in M : \A e \in M : d >= e

====
